---- MODULE Spec2Model ----
(***************************************************************************)
(* Model of Scene2/src/scripts/ReflectionDetector.ts.                      *)
(*                                                                         *)
(* Numbers.  The source works in IEEE doubles.  Here luma and the Sobel    *)
(* sums are kept exactly as integers in units of 1/1000 (the luma weights  *)
(* 0.299, 0.587, 0.114 are 299, 587, 114 thousandths), and projected       *)
(* coordinates are kept exactly as fractions [n, d] with d > 0.  A gradient*)
(* magnitude sqrt(sumX^2 + sumY^2) is kept as the pair [sx, sy] of its two *)
(* sums, so that "magnitude > t" and "magnitude = 0" are decided exactly.  *)
(* Rounding of doubles and of the Float32Array that holds the positions is *)
(* not modelled; the pixel values used keep every comparison far from its  *)
(* threshold.                                                              *)
(***************************************************************************)
EXTENDS Integers, Sequences, FiniteSets

VARIABLES
    videoWidth,         \* webcamVideo.videoWidth of the frame at hand
    videoHeight,        \* webcamVideo.videoHeight of the frame at hand
    pixels,             \* imageData.data: flat RGBA array, index 0 .. 4*w*h-1
    stage,              \* which computation the state belongs to / how far it is
    outcome,            \* how findBrightPoints ended: "none", "ok", "TypeError"
    candidates,         \* brightPoints as returned by findBrightPoints
    ranked,             \* brightPoints after the in-place sort and truncation
    positions,          \* the 'position' BufferAttribute: slot 0 .. maxBrightPoints-1
    webcam,             \* getUserMedia promise: "requesting", "granted", "denied"
    getUserMediaCalls,  \* how many times getUserMedia was called
    errorLog,           \* how many times console.error was called
    loaded,             \* the module's top-level code (line 192) has run
    rafQueue,           \* callbacks registered for the next animation frame
    running,            \* callbacks of the frame being run, not yet invoked
    detectRan,          \* detectReflections has been invoked at least once
    updatesSinceRender, \* buffer updates since the last render (capped)
    rendersSinceUpdate, \* renders since the last buffer update (capped), -1: no update yet
    lastRenderUpdates,  \* updatesSinceRender as the last render found it, -1: none yet
    lastUpdateRenders   \* rendersSinceUpdate as the last update found it, -1: no earlier update

vars == <<videoWidth, videoHeight, pixels, stage, outcome, candidates, ranked,
          positions, webcam, getUserMediaCalls, errorLog, loaded, rafQueue,
          running, detectRan, updatesSinceRender, rendersSinceUpdate,
          lastRenderUpdates, lastUpdateRenders>>

frameVars == <<videoWidth, videoHeight, pixels>>
passVars == <<outcome, candidates, ranked>>
driverVars == <<webcam, getUserMediaCalls, errorLog, loaded, rafQueue, running,
                detectRan, updatesSinceRender, rendersSinceUpdate,
                lastRenderUpdates, lastUpdateRenders>>

----------------------------------------------------------------------------
(* Bounds of the model *)

\* frames of the extraction specification are at most MaxDim x MaxDim
MaxDim == 4
\* ... and differ from their background colour in at most MaxLit pixels
MaxLit == 2
\* frames of the update specification are at most MaxVideoDim x MaxVideoDim
MaxVideoDim == 3
\* candidate lists handed to updateParticleSystem have at most MaxCand entries
MaxCand == 6
\* the history counters of the driver stop counting here
CountCap == 2

----------------------------------------------------------------------------
(* Configuration fields, lines 18-21 *)

BrightnessThreshold == 200
\* edgeThreshold = 0.2, in thousandths
EdgeThresholdMilli == 200
\* projectionDistance = 0.1
ProjectionDistance == [n |-> 1, d |-> 10]
MaxBrightPoints == 5

----------------------------------------------------------------------------
(* Exact fractions for the arithmetic of convertToWorldPosition *)

Rat(n, d) == [n |-> n, d |-> d]
RatMulInt(r, k) == [n |-> r.n * k, d |-> r.d]
RatAddInt(r, k) == [n |-> r.n + k * r.d, d |-> r.d]
RatSub(r, s) == [n |-> r.n * s.d - s.n * r.d, d |-> r.d * s.d]
RatEq(r, s) == r.n * s.d = s.n * r.d
RatLeq(r, s) == r.n * s.d <= s.n * r.d

Min(a, b) == IF a < b THEN a ELSE b

----------------------------------------------------------------------------
(* Frames *)

Gray == <<128, 128, 128>>
White == <<255, 255, 255>>
Yellow == <<255, 255, 0>>
Pale == <<210, 210, 210>>
Palette == {Gray, White, Yellow}
\* colours whose luma is above brightnessThreshold
BrightColours == {Pale, Yellow, White}

\* the RGBA buffer of a w x h frame that is colour bg except on the pixels
\* (numbered in row-major order) of lit, which are colour fg; alpha is 255
MakeFrame(w, h, bg, fg, lit) ==
    [i \in 0..(4 * w * h - 1) |->
        LET p == i \div 4
            c == i % 4
            col == IF p \in lit THEN fg ELSE bg
        IN  IF c = 3 THEN 255 ELSE col[c + 1]]

NoPixels == [i \in {} |-> 0]

\* 0.299 * pixels[i] + 0.587 * pixels[i + 1] + 0.114 * pixels[i + 2], in thousandths
Luma(p, i) == 299 * p[i] + 587 * p[i + 1] + 114 * p[i + 2]

----------------------------------------------------------------------------
(* applySobelFilter, lines 124-163 *)

gx == <<<<-1, 0, 1>>, <<-2, 0, 2>>, <<-1, 0, 1>>>>
gy == <<<<-1, -2, -1>>, <<0, 0, 0>>, <<1, 2, 1>>>>

RECURSIVE SobelSum(_, _, _, _, _, _)
\* the inner loops of lines 149-156 from their n-th round on (i = -1, 0, 1
\* outside, j = -1, 0, 1 inside), for the kernel k: the sum of
\* brightness * k[i + 1][j + 1]
SobelSum(p, width, x, y, k, n) ==
    IF n > 8 THEN 0
    ELSE LET i == (n \div 3) - 1
             j == (n % 3) - 1
             pixelIndex == ((y + i) * width + (x + j)) * 4
         IN  Luma(p, pixelIndex) * k[i + 2][j + 2]
               + SobelSum(p, width, x, y, k, n + 1)

\* sumX and sumY of lines 146-156 at pixel (x, y)
SobelAt(p, width, x, y) ==
    [sx |-> SobelSum(p, width, x, y, gx, 0),
     sy |-> SobelSum(p, width, x, y, gy, 0)]

\* a gradient magnitude of 0 (line 140)
ZeroGrad == [sx |-> 0, sy |-> 0]

\* the x, or y, for which the loops of lines 144-145 compute a gradient
Interior(n) == 1..(n - 2)

Clamp(a, n) == IF a < 0 THEN 0 ELSE IF a > n - 1 THEN n - 1 ELSE a

RECURSIVE SobelSumClamped(_, _, _, _, _, _, _)
\* as SobelSum, with the neighbourhood clamped to the frame
SobelSumClamped(p, width, height, x, y, k, n) ==
    IF n > 8 THEN 0
    ELSE LET i == (n \div 3) - 1
             j == (n % 3) - 1
             pixelIndex == (Clamp(y + i, height) * width + Clamp(x + j, width)) * 4
         IN  Luma(p, pixelIndex) * k[i + 2][j + 2]
               + SobelSumClamped(p, width, height, x, y, k, n + 1)

SobelAtClamped(p, width, height, x, y) ==
    [sx |-> SobelSumClamped(p, width, height, x, y, gx, 0),
     sy |-> SobelSumClamped(p, width, height, x, y, gy, 0)]

\* a filter that computes the border pixels too, from a clamped neighbourhood
ApplySobelFilterClampedBorder(p, width, height) ==
    [y \in 0..(height - 1) |->
        [x \in 0..(width - 1) |-> SobelAtClamped(p, width, height, x, y)]]

\* gradients[y][x]: rows 0 .. height-1, each with columns 0 .. width-1
ApplySobelFilter(p, width, height) ==
    [y \in 0..(height - 1) |->
        [x \in 0..(width - 1) |->
            IF y \in Interior(height) /\ x \in Interior(width)
            THEN SobelAt(p, width, x, y)
            ELSE ZeroGrad]]

Abs(a) == IF a < 0 THEN 0 - a ELSE a

\* sqrt(sx^2 + sy^2) > t, all in thousandths, t >= 0
GradGT(g, t) ==
    \/ Abs(g.sx) > t
    \/ Abs(g.sy) > t
    \/ g.sx * g.sx + g.sy * g.sy > t * t

GradIsZero(g) == g.sx = 0 /\ g.sy = 0

----------------------------------------------------------------------------
(* findBrightPoints, lines 91-106 *)

\* new THREE.Color(r / 255, g / 255, b / 255)
Color(p, i) == <<Rat(p[i], 255), Rat(p[i + 1], 255), Rat(p[i + 2], 255)>>

BrightPoint(p, i, x, y) ==
    [x |-> x, y |-> y, brightness |-> Luma(p, i), color |-> Color(p, i)]

IsBright(p, i) == Luma(p, i) > BrightnessThreshold * 1000

\* What edges[a][b] > edgeThreshold does: "TypeError" when edges[a] is
\* undefined, "false" when edges[a][b] is undefined (undefined > 0.2), else the
\* comparison.
EdgeAbove(edges, a, b) ==
    IF a \notin DOMAIN edges THEN "TypeError"
    ELSE IF b \notin DOMAIN edges[a] THEN "false"
    ELSE IF GradGT(edges[a][b], EdgeThresholdMilli) THEN "true" ELSE "false"

\* the edge test of line 100 for the pixel at column x, row y, reading the
\* map at the pixel's own row and column
EdgeTestRowColumn(edges, x, y) == EdgeAbove(edges, y, x)

\* the edge test left out of line 100
EdgeTestDropped(edges, x, y) == "true"

\* the edge test of line 100 for the pixel at column x, row y: edges[x][y]
EdgeTest(edges, x, y) == EdgeAbove(edges, x, y)

RECURSIVE FindLoop(_, _, _, _, _, _)
\* the loop of lines 95-103 from index i on; length is pixels.length, acc the
\* points pushed so far
FindLoop(p, length, width, edges, i, acc) ==
    IF i >= length THEN [outcome |-> "ok", points |-> acc]
    ELSE LET x == (i \div 4) % width
             y == (i \div 4) \div width
         IN  IF ~IsBright(p, i) THEN FindLoop(p, length, width, edges, i + 4, acc)
             ELSE LET t == EdgeTest(edges, x, y)
                  IN  IF t = "TypeError"
                      THEN [outcome |-> "TypeError", points |-> <<>>]
                      ELSE IF t = "true"
                      THEN FindLoop(p, length, width, edges, i + 4,
                                    Append(acc, BrightPoint(p, i, x, y)))
                      ELSE FindLoop(p, length, width, edges, i + 4, acc)

FindBrightPoints(p, width, height) ==
    FindLoop(p, width * height * 4, width, ApplySobelFilter(p, width, height), 0, <<>>)

----------------------------------------------------------------------------
(* convertToWorldPosition, lines 165-169 *)

\* x / width * 2 + 1 in place of x / width * 2 - 1
ConvertToWorldPositionPlusOne(x, y, width, height) ==
    [x |-> RatAddInt(RatMulInt(Rat(x, width), 2), 1),
     y |-> RatAddInt(RatMulInt(Rat(0 - y, height), 2), 1),
     z |-> Rat(0, 1)]

ConvertToWorldPosition(x, y, width, height) ==
    [x |-> RatAddInt(RatMulInt(Rat(x, width), 2), -1),
     y |-> RatAddInt(RatMulInt(Rat(0 - y, height), 2), 1),
     z |-> Rat(0, 1)]

----------------------------------------------------------------------------
(* updateParticleSystem, lines 108-122 *)

RECURSIVE InsertAscending(_, _)
InsertAscending(pt, s) ==
    IF s = <<>> THEN <<pt>>
    ELSE IF Head(s).brightness <= pt.brightness
         THEN <<Head(s)>> \o InsertAscending(pt, Tail(s))
         ELSE <<pt>> \o s

RECURSIVE SortAscending(_)
\* a sort with the comparator's operands exchanged: a.brightness - b.brightness
SortAscending(s) ==
    IF s = <<>> THEN <<>>
    ELSE InsertAscending(s[Len(s)], SortAscending(SubSeq(s, 1, Len(s) - 1)))

RECURSIVE Insert(_, _)
\* pt put behind every entry of the sorted s that the comparator
\* (a, b) => b.brightness - a.brightness does not place after it
Insert(pt, s) ==
    IF s = <<>> THEN <<pt>>
    ELSE IF Head(s).brightness >= pt.brightness
         THEN <<Head(s)>> \o Insert(pt, Tail(s))
         ELSE <<pt>> \o s

RECURSIVE Sort(_)
\* brightPoints.sort((a, b) => b.brightness - a.brightness): Array.prototype.sort
\* is stable, so equal brightness keeps its order
Sort(s) ==
    IF s = <<>> THEN <<>>
    ELSE Insert(s[Len(s)], Sort(SubSeq(s, 1, Len(s) - 1)))

\* lines 110-112
Truncate(s) ==
    IF Len(s) > MaxBrightPoints THEN SubSeq(s, 1, MaxBrightPoints) ELSE s

\* the value positions.setXYZ(i, ...) stores for point pt, line 118
SlotValue(pt, width, height) ==
    LET worldPos == ConvertToWorldPosition(pt.x, pt.y, width, height)
    IN  [x |-> worldPos.x, y |-> worldPos.y,
         z |-> RatSub(worldPos.z, ProjectionDistance)]

\* the loop of lines 115-120 with every point written one slot further on
WriteSlotsShifted(bp, pos, width, height) ==
    [i \in DOMAIN pos |->
        IF 1 <= i /\ i <= Len(bp) THEN SlotValue(bp[i], width, height)
        ELSE pos[i]]

\* the loop of lines 115-120: slot i (from 0) receives brightPoints[i]
WriteSlots(bp, pos, width, height) ==
    [i \in DOMAIN pos |->
        IF i < Len(bp) THEN SlotValue(bp[i + 1], width, height) ELSE pos[i]]

UpdateParticleSystem(bp, pos, width, height) ==
    LET sorted == Truncate(Sort(bp))
    IN  [ranked |-> sorted, positions |-> WriteSlots(sorted, pos, width, height)]

\* new Float32Array(particleCount * 3), lines 58-60: maxBrightPoints zeroed slots
ZeroSlot == [x |-> Rat(0, 1), y |-> Rat(0, 1), z |-> Rat(0, 1)]
InitParticleSystem == [i \in 0..(MaxBrightPoints - 1) |-> ZeroSlot]

----------------------------------------------------------------------------
(* Extraction on one frame: findBrightPoints applied to a frame drawn from  *)
(* the two-colour frames of at most MaxDim x MaxDim pixels.                 *)

Dims == 1..MaxDim

RECURSIVE SetsUpTo(_, _)
\* the subsets of S with at most k elements
SetsUpTo(S, k) ==
    IF k = 0 THEN {{}}
    ELSE LET smaller == SetsUpTo(S, k - 1)
         IN  smaller \cup {L \cup {e} : L \in smaller, e \in S}

LitSets(cells) == SetsUpTo(0..(cells - 1), MaxLit)

InitIdleDriver ==
    /\ webcam = "requesting"
    /\ getUserMediaCalls = 1
    /\ errorLog = 0
    /\ loaded = FALSE
    /\ rafQueue = <<>>
    /\ running = <<>>
    /\ detectRan = FALSE
    /\ updatesSinceRender = 0
    /\ rendersSinceUpdate = -1
    /\ lastRenderUpdates = -1
    /\ lastUpdateRenders = -1

InitFrame ==
    /\ videoWidth \in Dims
    /\ videoHeight \in Dims
    /\ \E bg \in Palette, fg \in Palette :
         \E lit \in LitSets(videoWidth * videoHeight) :
            pixels = MakeFrame(videoWidth, videoHeight, bg, fg, lit)
    /\ stage = "frame"
    /\ outcome = "none"
    /\ candidates = <<>>
    /\ ranked = <<>>
    /\ positions = InitParticleSystem
    /\ InitIdleDriver

\* const brightPoints = this.findBrightPoints(pixels, width, height), line 83
FindStep ==
    /\ stage = "frame"
    /\ \E r \in {FindBrightPoints(pixels, videoWidth, videoHeight)} :
           /\ outcome' = r.outcome
           /\ candidates' = r.points
    /\ stage' = "found"
    /\ UNCHANGED <<frameVars, ranked, positions, driverVars>>

NextFrame == FindStep

SpecFrame == InitFrame /\ [][NextFrame]_vars

----------------------------------------------------------------------------
(* Claims about the extraction, under SpecFrame *)

PixelIndex(x, y) == (y * videoWidth + x) * 4

ReturnedAt(x, y) ==
    \E k \in DOMAIN candidates : candidates[k].x = x /\ candidates[k].y = y

\* the reference extractor: bright, and the edge map above the threshold at
\* the pixel's own row y and column x
ReferenceQualifies(x, y) ==
    /\ IsBright(pixels, PixelIndex(x, y))
    /\ EdgeTestRowColumn(ApplySobelFilter(pixels, videoWidth, videoHeight), x, y) = "true"

\* C1: for every frame and every pixel (x, y) of it, findBrightPoints returns
\* a BrightPoint at (x, y) if and only if the pixel's luma is above
\* brightnessThreshold and the gradient magnitude computed for that same
\* pixel is above edgeThreshold.
C1_ExtractorMatchesReference ==
    stage = "found" =>
        \A x \in 0..(videoWidth - 1), y \in 0..(videoHeight - 1) :
            ReturnedAt(x, y) <=> ReferenceQualifies(x, y)

\* C5: findBrightPoints completes without raising an error on every frame of
\* positive width and height.
C5_ExtractorNeverThrows == stage = "found" => outcome = "ok"

\* the 4x4 frame that is (128,128,128,255) except pixel (2,2) = (255,255,255,255)
ScenarioFrame == MakeFrame(4, 4, Gray, White, {2 * 4 + 2})

IsScenario ==
    /\ stage = "found"
    /\ videoWidth = 4
    /\ videoHeight = 4
    /\ pixels = ScenarioFrame

AtOrigin(pos) ==
    /\ RatEq(pos.x, Rat(0, 1))
    /\ RatEq(pos.y, Rat(0, 1))

\* C2 as stated: on the scenario frame findBrightPoints returns exactly one
\* BrightPoint, at (2,2), whose projection with width = height = 4 has
\* normalizedX = 0 and normalizedY = 0.
C2_ScenarioOnePoint ==
    IsScenario =>
        /\ Len(candidates) = 1
        /\ candidates[1].x = 2
        /\ candidates[1].y = 2
        /\ AtOrigin(ConvertToWorldPosition(candidates[1].x, candidates[1].y, 4, 4))

\* C2 amended: on the scenario frame pixel (2,2) is bright (its luma is 255)
\* but its gradient magnitude is not above edgeThreshold (both kernels weigh
\* the centre by 0 and its eight neighbours are equal, so the two sums cancel);
\* findBrightPoints completes and returns no BrightPoint; the projection of
\* pixel (2,2) with width = height = 4 is normalizedX = 0, normalizedY = 0.
C2_ScenarioNoPoint ==
    IsScenario =>
        /\ IsBright(pixels, PixelIndex(2, 2))
        /\ ~GradGT(ApplySobelFilter(pixels, videoWidth, videoHeight)[2][2],
                   EdgeThresholdMilli)
        /\ outcome = "ok"
        /\ candidates = <<>>
        /\ AtOrigin(ConvertToWorldPosition(2, 2, 4, 4))

C2_Witness == IsScenario

IsBorder(x, y) ==
    x = 0 \/ y = 0 \/ x = videoWidth - 1 \/ y = videoHeight - 1

\* C10: applySobelFilter returns a map with one value per pixel in which every
\* border pixel is 0; for a 1x1 or a 2x2 frame the whole map is 0 and
\* findBrightPoints returns no bright point, whatever the pixel values.
C10_BorderIsZero ==
    stage = "found" =>
        LET edges == ApplySobelFilter(pixels, videoWidth, videoHeight)
        IN  /\ DOMAIN edges = 0..(videoHeight - 1)
            /\ \A y \in DOMAIN edges : DOMAIN edges[y] = 0..(videoWidth - 1)
            /\ \A y \in DOMAIN edges : \A x \in DOMAIN edges[y] :
                 IsBorder(x, y) => GradIsZero(edges[y][x])
            /\ (videoWidth = videoHeight /\ videoWidth \in {1, 2}) =>
                 /\ \A y \in DOMAIN edges : \A x \in DOMAIN edges[y] :
                      GradIsZero(edges[y][x])
                 /\ outcome = "ok"
                 /\ candidates = <<>>

\* a 2x2 frame, every pixel of it bright, after findBrightPoints
C10_Witness ==
    /\ stage = "found"
    /\ videoWidth = 2
    /\ videoHeight = 2
    /\ \A x \in 0..1, y \in 0..1 : IsBright(pixels, PixelIndex(x, y))
    /\ candidates = <<>>

----------------------------------------------------------------------------
(* One call of updateParticleSystem.  The list handed to it is, as          *)
(* findBrightPoints builds its lists, a list of distinct pixels in scan     *)
(* order: here a run of at most MaxCand consecutive pixels of a frame of at *)
(* most MaxVideoDim x MaxVideoDim, each of a bright colour.  The buffer is  *)
(* either fresh from initParticleSystem or as an earlier pass with          *)
(* maxBrightPoints points left it.                                          *)

VideoDims == 1..MaxVideoDim

\* the BrightPoint findBrightPoints pushes for pixel number q of colour col
PointOf(q, col, width) ==
    LET p == MakeFrame(1, 1, col, col, {})
    IN  BrightPoint(p, 0, q % width, q \div width)

\* the pixels first, first + 1, ... with the colours of cols
RunList(first, cols, width) ==
    [k \in 1..Len(cols) |-> PointOf(first + k - 1, cols[k], width)]

\* the buffer after an earlier pass over the first pixels of the frame
UsedBuffer(width, height) ==
    LET n == Min(width * height, MaxBrightPoints)
        earlier == RunList(0, [k \in 1..n |-> White], width)
    IN  UpdateParticleSystem(earlier, InitParticleSystem, width, height).positions

InitUpdate ==
    /\ videoWidth \in VideoDims
    /\ videoHeight \in VideoDims
    /\ pixels = NoPixels
    /\ stage = "candidates"
    /\ outcome = "ok"
    /\ positions \in {InitParticleSystem, UsedBuffer(videoWidth, videoHeight)}
    /\ \E first \in 0..(videoWidth * videoHeight - 1), n \in 0..MaxCand :
          /\ first + n <= videoWidth * videoHeight
          /\ \E cols \in [1..n -> BrightColours] :
                candidates = RunList(first, cols, videoWidth)
    /\ ranked = <<>>
    /\ InitIdleDriver

\* this.updateParticleSystem(brightPoints), line 85
UpdateStep ==
    /\ stage = "candidates"
    /\ \E r \in {UpdateParticleSystem(candidates, positions, videoWidth, videoHeight)} :
           /\ ranked' = r.ranked
           /\ positions' = r.positions
    /\ stage' = "updated"
    /\ UNCHANGED <<frameVars, outcome, candidates, driverVars>>

NextUpdate == UpdateStep

SpecUpdate == InitUpdate /\ [][NextUpdate]_vars

----------------------------------------------------------------------------
(* Claims about ranking, the buffer and the projection, under SpecUpdate *)

SeqToSet(s) == {s[k] : k \in DOMAIN s}

\* C3: the list after sort-and-truncate has exactly min(N, maxBrightPoints)
\* entries, all of them candidates, is ordered by brightness non-increasing,
\* and every retained entry is at least as bright as every discarded one.
C3_RankedTopK ==
    stage = "updated" =>
        LET kept == SeqToSet(ranked)
            dropped == SeqToSet(candidates) \ kept
        IN  /\ Len(ranked) = Min(Len(candidates), MaxBrightPoints)
            /\ kept \subseteq SeqToSet(candidates)
            /\ Cardinality(kept) = Len(ranked)
            /\ \A i \in 1..(Len(ranked) - 1) :
                 ranked[i].brightness >= ranked[i + 1].brightness
            /\ \A r \in kept, d \in dropped : r.brightness >= d.brightness

\* more candidates than capacity, not already in order
C3_Witness ==
    /\ stage = "updated"
    /\ Len(candidates) > MaxBrightPoints
    /\ Len(ranked) = MaxBrightPoints
    /\ candidates[1].brightness < candidates[Len(candidates)].brightness
    /\ ranked[1].brightness > ranked[MaxBrightPoints].brightness

Slots == 0..(MaxBrightPoints - 1)

\* what slot i holds after a pass that ranked the list r, given the buffer before
SlotAfterPass(i, r, before) ==
    IF i < Len(r)
    THEN /\ RatEq(positions'[i].x, Rat(2 * r[i + 1].x - videoWidth, videoWidth))
         /\ RatEq(positions'[i].y, Rat(videoHeight - 2 * r[i + 1].y, videoHeight))
         /\ RatEq(positions'[i].z, Rat(-1, 10))
    ELSE positions'[i] = before[i]

\* C6: the buffer holds exactly maxBrightPoints slots and no pass resizes it;
\* a pass whose ranked list has n entries writes slots 0 .. n-1, slot i
\* receiving the projection of the i-th brightest point with
\* z = -projectionDistance, and leaves slots n .. maxBrightPoints-1 as they were.
C6_BufferFrameCondition ==
    /\ DOMAIN positions = Slots
    /\ [][ /\ DOMAIN positions' = Slots
           /\ (stage = "candidates" /\ stage' = "updated") =>
                /\ Len(ranked') <= MaxBrightPoints
                /\ \A i \in Slots : SlotAfterPass(i, ranked', positions) ]_vars

\* a pass of two points over a buffer whose other slots an earlier pass filled
C6_Witness ==
    /\ stage = "updated"
    /\ Len(ranked) = 2
    /\ positions[0] # positions[1]
    /\ \A i \in 2..(MaxBrightPoints - 1) : positions[i] # ZeroSlot

InUnitRange(r) == RatLeq(Rat(-1, 1), r) /\ RatLeq(r, Rat(1, 1))

\* C9: for every pixel (x, y) of a width x height frame convertToWorldPosition
\* returns x/width*2-1 and -(y/height)*2+1, both within [-1,1], and z = 0; hence
\* every position a pass writes into the buffer has x and y within [-1,1].
C9_ProjectionBounds ==
    /\ \A x \in 0..(videoWidth - 1), y \in 0..(videoHeight - 1) :
         LET w == ConvertToWorldPosition(x, y, videoWidth, videoHeight)
         IN  /\ RatEq(w.x, Rat(2 * x - videoWidth, videoWidth))
             /\ RatEq(w.y, Rat(videoHeight - 2 * y, videoHeight))
             /\ RatEq(w.z, Rat(0, 1))
             /\ InUnitRange(w.x)
             /\ InUnitRange(w.y)
    /\ stage = "updated" =>
         \A i \in Slots : i < Len(ranked) =>
             InUnitRange(positions[i].x) /\ InUnitRange(positions[i].y)

\* a pass wrote the corner pixel (0,0), which projects to (-1, 1), and a
\* pixel of the last column and last row
C9_Witness ==
    /\ stage = "updated"
    /\ Len(ranked) >= 2
    /\ \E i \in Slots : /\ i < Len(ranked)
                        /\ RatEq(positions[i].x, Rat(-1, 1))
                        /\ RatEq(positions[i].y, Rat(1, 1))
    /\ \E i \in Slots : /\ i < Len(ranked)
                        /\ ranked[i + 1].x = videoWidth - 1
                        /\ ranked[i + 1].y = videoHeight - 1
                        /\ videoWidth > 1 /\ videoHeight > 1

----------------------------------------------------------------------------
(* The driver: the module's top-level code, the getUserMedia promise and    *)
(* the two requestAnimationFrame loops.  A frame's callbacks are invoked in *)
(* the order of their registration; a callback registered while a frame     *)
(* runs is invoked in the next frame.  The promise settles in a task of its *)
(* own, between frames.                                                     *)

Frame(w, h, px) == [w |-> w, h |-> h, px |-> px]

\* what the capture source may show when a pass snapshots it
SourceFrames ==
    { Frame(4, 4, MakeFrame(4, 4, White, Gray, {5})),
      Frame(3, 3, MakeFrame(3, 3, White, Gray, {0})),
      Frame(5, 5, MakeFrame(5, 5, White, Gray, {12})),
      Frame(4, 4, MakeFrame(4, 4, Gray, White, {10})),
      Frame(2, 3, MakeFrame(2, 3, White, White, {})),
      Frame(3, 2, MakeFrame(3, 2, White, White, {})) }

Count(cb, s) == Cardinality({k \in DOMAIN s : s[k] = cb})

\* invocations of cb that are registered and not yet made
Pending(cb) == Count(cb, running) + Count(cb, rafQueue)

Bump(c) == Min(c + 1, CountCap)

\* the state after new ReflectionDetector(), line 185: getUserMedia has been
\* called (initWebcam), the buffer allocated (initParticleSystem)
Init ==
    /\ videoWidth = 0
    /\ videoHeight = 0
    /\ pixels = NoPixels
    /\ stage = "driver"
    /\ outcome = "none"
    /\ candidates = <<>>
    /\ ranked = <<>>
    /\ positions = InitParticleSystem
    /\ webcam = "requesting"
    /\ getUserMediaCalls = 1
    /\ errorLog = 0
    /\ loaded = FALSE
    /\ rafQueue = <<>>
    /\ running = <<>>
    /\ detectRan = FALSE
    /\ updatesSinceRender = 0
    /\ rendersSinceUpdate = -1
    /\ lastRenderUpdates = -1
    /\ lastUpdateRenders = -1

\* reflectionDetector.render(), lines 171-173, and what it finds
Render ==
    /\ lastRenderUpdates' = updatesSinceRender
    /\ updatesSinceRender' = 0
    /\ rendersSinceUpdate' =
         IF rendersSinceUpdate = -1 THEN -1 ELSE Bump(rendersSinceUpdate)

\* animate() with the call of render left out
AnimateWithoutRender ==
    /\ stage = "driver"
    /\ \/ /\ ~loaded
          /\ running' = running
       \/ /\ loaded
          /\ running # <<>>
          /\ Head(running) = "animate"
          /\ running' = Tail(running)
    /\ loaded' = TRUE
    /\ rafQueue' = Append(rafQueue, "animate")
    /\ UNCHANGED <<frameVars, stage, passVars, positions, webcam,
                   getUserMediaCalls, errorLog, detectRan, lastUpdateRenders,
                   lastRenderUpdates, updatesSinceRender, rendersSinceUpdate>>

\* animate(), lines 188-191: called once by line 192, then as a callback
Animate ==
    /\ stage = "driver"
    /\ \/ /\ ~loaded
          /\ running' = running
       \/ /\ loaded
          /\ running # <<>>
          /\ Head(running) = "animate"
          /\ running' = Tail(running)
    /\ loaded' = TRUE
    /\ rafQueue' = Append(rafQueue, "animate")
    /\ Render
    /\ UNCHANGED <<frameVars, stage, passVars, positions, webcam,
                   getUserMediaCalls, errorLog, detectRan, lastUpdateRenders>>

\* the host starts an animation frame: it takes the registered callbacks
FrameStart ==
    /\ stage = "driver"
    /\ loaded
    /\ running = <<>>
    /\ rafQueue # <<>>
    /\ running' = rafQueue
    /\ rafQueue' = <<>>
    /\ UNCHANGED <<frameVars, stage, passVars, positions, webcam,
                   getUserMediaCalls, errorLog, loaded, detectRan,
                   updatesSinceRender, rendersSinceUpdate, lastRenderUpdates,
                   lastUpdateRenders>>

\* the .then handler of lines 47-51
GetUserMediaResolve ==
    /\ stage = "driver"
    /\ loaded
    /\ running = <<>>
    /\ webcam = "requesting"
    /\ webcam' = "granted"
    /\ rafQueue' = Append(rafQueue, "detectReflections")
    /\ UNCHANGED <<frameVars, stage, passVars, positions, getUserMediaCalls,
                   errorLog, loaded, running, detectRan, updatesSinceRender,
                   rendersSinceUpdate, lastRenderUpdates, lastUpdateRenders>>

\* a .catch handler that goes on to schedule detectReflections
GetUserMediaRejectThenSchedule ==
    /\ stage = "driver"
    /\ loaded
    /\ running = <<>>
    /\ webcam = "requesting"
    /\ webcam' = "denied"
    /\ errorLog' = errorLog + 1
    /\ rafQueue' = Append(rafQueue, "detectReflections")
    /\ UNCHANGED <<frameVars, stage, passVars, positions, getUserMediaCalls,
                   loaded, running, detectRan, updatesSinceRender,
                   rendersSinceUpdate, lastRenderUpdates, lastUpdateRenders>>

\* the .catch handler of lines 52-54
GetUserMediaReject ==
    /\ stage = "driver"
    /\ loaded
    /\ running = <<>>
    /\ webcam = "requesting"
    /\ webcam' = "denied"
    /\ errorLog' = errorLog + 1
    /\ UNCHANGED <<frameVars, stage, passVars, positions, getUserMediaCalls,
                   loaded, rafQueue, running, detectRan, updatesSinceRender,
                   rendersSinceUpdate, lastRenderUpdates, lastUpdateRenders>>

\* detectReflections, lines 68-89, invoked as a callback.  ready: readyState is
\* HAVE_ENOUGH_DATA; ctxOk: getContext('2d') returned a context; f: the frame
\* drawImage and getImageData snapshot.
DetectReflections(ready, ctxOk, f) ==
    /\ stage = "driver"
    /\ running # <<>>
    /\ Head(running) = "detectReflections"
    /\ running' = Tail(running)
    /\ detectRan' = TRUE
    /\ IF ~ready
       THEN \* line 69 false: line 88 only
            /\ rafQueue' = Append(rafQueue, "detectReflections")
            /\ UNCHANGED <<frameVars, passVars, positions, updatesSinceRender,
                           rendersSinceUpdate, lastUpdateRenders>>
       ELSE IF ~ctxOk
       THEN \* lines 76-78: return, line 88 is not reached
            /\ videoWidth' = f.w
            /\ videoHeight' = f.h
            /\ UNCHANGED <<pixels, passVars, positions, rafQueue,
                           updatesSinceRender, rendersSinceUpdate,
                           lastUpdateRenders>>
       ELSE \E found \in {FindBrightPoints(f.px, f.w, f.h)} :
                /\ videoWidth' = f.w
                /\ videoHeight' = f.h
                /\ pixels' = f.px
                /\ outcome' = found.outcome
                /\ candidates' = found.points
                /\ IF found.outcome = "TypeError"
                   THEN \* line 83 throws: lines 85 and 88 are not reached
                        UNCHANGED <<ranked, positions, rafQueue,
                                    updatesSinceRender, rendersSinceUpdate,
                                    lastUpdateRenders>>
                   ELSE \E r \in {UpdateParticleSystem(found.points, positions,
                                                         f.w, f.h)} :
                            /\ ranked' = r.ranked
                            /\ positions' = r.positions
                            /\ lastUpdateRenders' = rendersSinceUpdate
                            /\ rendersSinceUpdate' = 0
                            /\ updatesSinceRender' = Bump(updatesSinceRender)
                            /\ rafQueue' = Append(rafQueue, "detectReflections")
    /\ UNCHANGED <<stage, webcam, getUserMediaCalls, errorLog, loaded,
                   lastRenderUpdates>>

Next ==
    \/ Animate
    \/ FrameStart
    \/ GetUserMediaResolve
    \/ GetUserMediaReject
    \/ \E ready \in BOOLEAN, ctxOk \in BOOLEAN, f \in SourceFrames :
          DetectReflections(ready, ctxOk, f)

Spec == Init /\ [][Next]_vars

----------------------------------------------------------------------------
(* Claims about the driver, under Spec *)

\* C4: once capture has been acquired and detectReflections scheduled, every
\* invocation of detectReflections ends with exactly one next invocation
\* scheduled: in every state after that a next invocation is pending.
C4_DetectAlwaysPending ==
    webcam = "granted" => Pending("detectReflections") = 1

\* C7 as stated: every render finds exactly one buffer update since the
\* render before it, and every buffer update finds exactly one render since
\* the buffer update before it.
C7_RenderOncePerPass ==
    /\ lastRenderUpdates \in {-1, 1}
    /\ lastUpdateRenders \in {-1, 1}

\* C7 amended: render is invoked by animate, once per invocation of animate
\* (at load and then once per animation frame), whether or not a pass has
\* updated the buffer since the render before it; between two consecutive
\* renders there is at most one buffer update, and between two consecutive
\* buffer updates there is at least one render.
C7_RenderOncePerFrame ==
    /\ loaded <=> lastRenderUpdates # -1
    /\ lastRenderUpdates \in {-1, 0, 1}
    /\ updatesSinceRender \in {0, 1}
    /\ lastUpdateRenders # 0
    /\ Pending("animate") = (IF loaded THEN 1 ELSE 0)

\* a pass updated the buffer after two renders without a pass (the frame was
\* not ready), and the render after it has run
C7_Witness ==
    /\ lastUpdateRenders = CountCap
    /\ lastRenderUpdates = 1
    /\ rendersSinceUpdate = 1

\* C8: if getUserMedia rejects, the failure is logged exactly once, acquisition
\* is not retried, detectReflections is never scheduled or run, and the
\* buffer keeps its initial contents, in every later state.
C8_CaptureFailureIsFinal ==
    /\ [](/\ getUserMediaCalls = 1
          /\ errorLog = (IF webcam = "denied" THEN 1 ELSE 0)
          /\ webcam = "denied" =>
               /\ ~detectRan
               /\ Pending("detectReflections") = 0
               /\ positions = InitParticleSystem
               /\ outcome = "none")
    /\ [][webcam = "denied" => webcam' = "denied"]_vars

\* an animation frame has started after the failure
C8_Witness ==
    /\ webcam = "denied"
    /\ running = <<"animate">>

====
